---- MODULE Spec2Model ----
(***************************************************************************)
(* Model of the Spigot adapter of nonebot-adapter-spigot: the WebSocket    *)
(* connection handler Adapter._handle_ws (handshake, receive loop,         *)
(* cleanup) and the event decoder Adapter.json_to_event.                   *)
(*                                                                         *)
(* The repository carries two copies of adapter.py:                        *)
(*   "adapter"  : src/nonebot/adapter/spigot/adapter.py                    *)
(*   "adapters" : src/nonebot/adapters/spigot/adapter.py                   *)
(* They differ in the header decoding, in the discriminator keys given to  *)
(* the Collator and in a second connection map.  The variable `variant`    *)
(* says which copy runs; it is chosen in Init and never changes.           *)
(***************************************************************************)
EXTENDS Integers, Sequences, FiniteSets, TLC

\* Bounds of the model.
NumConns == 2
MaxFrames == 2
MaxWireFrames == 1

Conns == 1..NumConns
Variants == {"adapter", "adapters"}

\* Python's None: a missing header, a missing field, "no event".
None == "None"

(***************************************************************************)
(* Event models (event.py) and the Collator (collator.py).                 *)
(***************************************************************************)
PostTypes == {None, "message", "notice"}
EventNames == {None, "PlayerChat", "PlayerJoin", "Other"}
Fields == {"player", "message"}

\* A received frame.  kind "notjson" is text json.loads rejects; the other
\* kinds are the JSON value types.  Only objects carry fields.
Objects ==
    [kind : {"object"}, post_type : PostTypes, event_name : EventNames,
     fields : SUBSET Fields]
NonObjectKinds == {"array", "string", "number", "boolean", "null"}
NonObjects ==
    {[kind |-> k, post_type |-> None, event_name |-> None, fields |-> {}] :
        k \in NonObjectKinds}
NotJson == [kind |-> "notjson", post_type |-> None, event_name |-> None, fields |-> {}]
\* No frame received yet.
NoFrame == [kind |-> "none", post_type |-> None, event_name |-> None, fields |-> {}]
Frames == Objects \cup NonObjects \cup {NotJson}

\* The event classes of event.py: the discriminator values a class declares
\* and the fields it requires besides.
EventClass(v, m) ==
    CASE m = "Event" ->
            [post_type |-> None, event_name |-> None, required |-> {}]
      [] m = "MessageEvent" ->
            [post_type |-> "message", event_name |-> None, required |-> {"message"}]
      [] m = "PlayerChat" ->
            [post_type |-> IF v = "adapters" THEN "message" ELSE None,
             event_name |-> "PlayerChat", required |-> {"player", "message"}]
      [] m = "PlayerJoin" ->
            [post_type |-> IF v = "adapters" THEN "notice" ELSE None,
             event_name |-> "PlayerJoin", required |-> {"player"}]

\* DEFAULT_MODELS: every class of the event module that is a subclass of
\* Event (Event included), in dir() order, which is alphabetical.
DEFAULT_MODELS(v) ==
    IF v = "adapters"
    THEN <<"Event", "MessageEvent", "PlayerChat", "PlayerJoin">>
    ELSE <<"Event", "PlayerChat", "PlayerJoin">>

\* The discriminator keys the Collator is built with.
CollatorKeys(v) ==
    IF v = "adapters" THEN <<"post_type", "event_name">> ELSE <<"event_name">>

\* model.parse_obj(json_data): the strict structural parse.  The object needs
\* an event_name, the discriminator values the class declares, and the
\* class's required fields.
parse_obj(v, m, json_data) ==
    LET c == EventClass(v, m) IN
    /\ json_data.event_name # None
    /\ c.event_name # None => json_data.event_name = c.event_name
    /\ c.post_type # None => json_data.post_type = c.post_type
    /\ c.required \subseteq json_data.fields

RECURSIVE TakePresent(_)
TakePresent(s) ==
    IF s = <<>> \/ Head(s) = None THEN <<>>
    ELSE <<Head(s)>> \o TakePresent(Tail(s))

FieldsOf(keys, r) == [i \in 1..Len(keys) |-> r[keys[i]]]

\* The discriminator key of a record: the values of the configured fields,
\* up to the first one that is missing.
DiscriminatorKey(v, r) == TakePresent(FieldsOf(CollatorKeys(v), r))

RECURSIVE ModelsAt(_, _, _)
ModelsAt(v, models, key) ==
    IF models = <<>> THEN <<>>
    ELSE IF DiscriminatorKey(v, EventClass(v, Head(models))) = key
         THEN <<Head(models)>> \o ModelsAt(v, Tail(models), key)
         ELSE ModelsAt(v, Tail(models), key)

RECURSIVE Degrade(_, _, _)
Degrade(v, key, n) ==
    ModelsAt(v, DEFAULT_MODELS(v), SubSeq(key, 1, n))
        \o (IF n = 0 THEN <<>> ELSE Degrade(v, key, n - 1))

\* Collator.get_model(data): the classes indexed under the payload's key and
\* under its shorter prefixes, most specific first; the class that declares
\* no discriminator value (Event) is under the empty key and comes last.
get_model(v, json_data) ==
    LET key == DiscriminatorKey(v, json_data) IN Degrade(v, key, Len(key))


(***************************************************************************)
(* The event decoder.                                                      *)
(***************************************************************************)
Range(s) == {s[i] : i \in 1..Len(s)}
Reverse(s) == [i \in 1..Len(s) |-> s[Len(s) + 1 - i]]

\* Mutants of get_event_model: the candidates least specific first; the
\* candidates without the last one.
get_event_model_Reversed(v, json_data) == Reverse(get_model(v, json_data))
get_event_model_NoFallback(v, json_data) ==
    LET s == get_model(v, json_data) IN SubSeq(s, 1, Len(s) - 1)

\* Adapter.get_event_model: yields what the Collator yields, in its order.
get_event_model(v, json_data) == get_model(v, json_data)

\* The for loop of json_to_event: parse_obj on each candidate in turn, break
\* on the first that parses; a candidate that fails is logged and skipped.
RECURSIVE ForModels(_, _, _, _)
ForModels(v, models, json_data, tried) ==
    IF models = <<>> THEN [event |-> None, tried |-> tried, broke |-> FALSE]
    ELSE IF parse_obj(v, Head(models), json_data)
         THEN [event |-> Head(models), tried |-> Append(tried, Head(models)),
               broke |-> TRUE]
         ELSE ForModels(v, Tail(models), json_data, Append(tried, Head(models)))

\* Mutants of json_to_event.
\* The loop without its break: every candidate is tried and the else branch
\* always runs.
json_to_event_NoBreak(v, json_data) ==
    IF json_data.kind # "object"
    THEN [event |-> None, tried |-> <<>>, fallback |-> FALSE, raised |-> FALSE]
    ELSE [event |-> IF parse_obj(v, "Event", json_data) THEN "Event" ELSE None,
          tried |-> get_event_model(v, json_data), fallback |-> TRUE,
          raised |-> FALSE]

\* Without the outer try: the failure of Event.parse_obj leaves the function.
json_to_event_NoCatch(v, json_data) ==
    IF json_data.kind # "object"
    THEN [event |-> None, tried |-> <<>>, fallback |-> FALSE, raised |-> FALSE]
    ELSE LET r == ForModels(v, get_event_model(v, json_data), json_data, <<>>) IN
         IF r.broke
         THEN [event |-> r.event, tried |-> r.tried, fallback |-> FALSE,
               raised |-> FALSE]
         ELSE [event |-> IF parse_obj(v, "Event", json_data) THEN "Event" ELSE None,
               tried |-> r.tried, fallback |-> TRUE,
               raised |-> ~parse_obj(v, "Event", json_data)]

\* Without the isinstance check: a value that is no dict reaches the loop.
json_to_event_NoDictCheck(v, json_data) ==
    LET r == ForModels(v, get_event_model(v, json_data), json_data, <<>>) IN
    IF r.broke
    THEN [event |-> r.event, tried |-> r.tried, fallback |-> FALSE, raised |-> FALSE]
    ELSE [event |-> IF parse_obj(v, "Event", json_data) THEN "Event" ELSE None,
          tried |-> r.tried, fallback |-> TRUE, raised |-> FALSE]

\* The for loop without its else branch: when no candidate parses, `event` is
\* unbound and the function returns None.
json_to_event_NoElse(v, json_data) ==
    IF json_data.kind # "object"
    THEN [event |-> None, tried |-> <<>>, fallback |-> FALSE, raised |-> FALSE]
    ELSE LET r == ForModels(v, get_event_model(v, json_data), json_data, <<>>) IN
         [event |-> r.event, tried |-> r.tried, fallback |-> FALSE,
          raised |-> FALSE]

\* Adapter.json_to_event.  The result records the event class returned (None
\* for no event), the candidates parse_obj was called on, in order, whether
\* the else branch (Event.parse_obj) ran, and whether an exception left the
\* function.
json_to_event(v, json_data) ==
    IF json_data.kind # "object"
    THEN [event |-> None, tried |-> <<>>, fallback |-> FALSE, raised |-> FALSE]
    ELSE LET r == ForModels(v, get_event_model(v, json_data), json_data, <<>>) IN
         IF r.broke
         THEN [event |-> r.event, tried |-> r.tried, fallback |-> FALSE,
               raised |-> FALSE]
         ELSE IF parse_obj(v, "Event", json_data)
              THEN [event |-> "Event", tried |-> r.tried, fallback |-> TRUE,
                    raised |-> FALSE]
              ELSE [event |-> None, tried |-> r.tried, fallback |-> TRUE,
                    raised |-> FALSE]

\* json.loads(data): raises on text that is not JSON.
json_loads(data) == [raised |-> data.kind = "notjson", value |-> data]

(***************************************************************************)
(* The connection handler.                                                 *)
(***************************************************************************)
\* Values of the X-Self-Name header: missing, empty, two names, and a name
\* written with an escape ("\x41" is "A").
Headers == {None, "", "A", "B", "\\x41"}

\* str.encode('utf-8').decode('unicode_escape')
unicode_escape(h) == IF h = "\\x41" THEN "A" ELSE h

\* Line 73 / 68: reading the header.  The "adapters" copy calls .encode on
\* the value, which raises on a missing header (None).
read_self_name(v, h) ==
    IF v = "adapter" THEN [raised |-> FALSE, value |-> h]
    ELSE IF h = None THEN [raised |-> TRUE, value |-> None]
    ELSE [raised |-> FALSE, value |-> unicode_escape(h)]

\* The close codes: the one the rejections give, and the default of
\* websocket.close().
PolicyViolation == 1008
NormalClosure == 1000

\* dict operations
EmptyDict == [k \in {} |-> 0]
Put(d, k, x) == [j \in (DOMAIN d) \cup {k} |-> IF j = k THEN x ELSE d[j]]
Pop(d, k) == [j \in (DOMAIN d) \ {k} |-> d[j]]

VARIABLES
    variant,          \* which copy of adapter.py runs
    pc,               \* where each connection's _handle_ws stands
    header,           \* the X-Self-Name header of each connection's request
    accepted,         \* websocket.accept() has been done
    closed,           \* the codes of the websocket.close() calls that went through
    close_failed,     \* websocket.close() of the finally block raised
    cause,            \* what ended the receive loop
    connections,      \* self.connections: self_name -> websocket
    get_connections,  \* utils.get_connections: self_name -> websocket
    bots,             \* self.bots: self_name -> bot (named by its connection)
    connects,         \* bot_connect notifications per connection
    disconnects,      \* bot_disconnect notifications per connection
    data,             \* the frame last received on each connection
    nrecv,            \* frames received on each connection
    tasks,            \* the handle_event tasks created, in creation order
    dec_pc, dec_in, dec_out   \* one call of json_to_event on its own

vars ==
    <<variant, pc, header, accepted, closed, close_failed, cause, connections,
      get_connections, bots, connects, disconnects, data, nrecv, tasks,
      dec_pc, dec_in, dec_out>>

connVars ==
    <<pc, header, accepted, closed, close_failed, cause, connections,
      get_connections, bots, connects, disconnects, data, nrecv, tasks>>
decVars == <<dec_pc, dec_in, dec_out>>

NoResult == [event |-> None, tried |-> <<>>, fallback |-> FALSE, raised |-> FALSE]

\* self_name of connection c (the local variable of _handle_ws).
self_name(c) == read_self_name(variant, header[c]).value

RECURSIVE SumTo(_, _)
SumTo(f, n) == IF n = 0 THEN 0 ELSE f[n] + SumTo(f, n - 1)
TotalReceived == SumTo(nrecv, NumConns)


Init ==
    /\ variant \in Variants
    /\ pc = [c \in Conns |-> "new"]
    /\ header = [c \in Conns |-> None]
    /\ accepted = [c \in Conns |-> FALSE]
    /\ closed = [c \in Conns |-> <<>>]
    /\ close_failed = [c \in Conns |-> FALSE]
    /\ cause = [c \in Conns |-> None]
    /\ connections = EmptyDict
    /\ get_connections = EmptyDict
    /\ bots = EmptyDict
    /\ connects = [c \in Conns |-> 0]
    /\ disconnects = [c \in Conns |-> 0]
    /\ data = [c \in Conns |-> NoFrame]
    /\ nrecv = [c \in Conns |-> 0]
    /\ tasks = <<>>
    /\ dec_pc = "idle"
    /\ dec_in = NoFrame
    /\ dec_out = NoResult

\* Mutant of Handshake: without the `elif self_name in self.bots` branch.
Handshake_NoDupCheck(c, h) ==
    /\ pc[c] = "new"
    /\ header' = [header EXCEPT ![c] = h]
    /\ LET sn == read_self_name(variant, h) IN
       IF sn.raised
       THEN /\ pc' = [pc EXCEPT ![c] = "crashed"]
            /\ closed' = closed
       ELSE IF sn.value = None \/ sn.value = ""
       THEN /\ pc' = [pc EXCEPT ![c] = "rejected_missing"]
            /\ closed' = [closed EXCEPT ![c] = Append(@, PolicyViolation)]
       ELSE /\ pc' = [pc EXCEPT ![c] = "accepting"]
            /\ closed' = closed
    /\ UNCHANGED <<variant, accepted, close_failed, cause, connections,
                   get_connections, bots, connects, disconnects, data, nrecv,
                   tasks, dec_pc, dec_in, dec_out>>

\* _handle_ws up to its first await: read the header, check it, and either
\* close with 1008 and return or call websocket.accept().
Handshake(c, h) ==
    /\ pc[c] = "new"
    /\ header' = [header EXCEPT ![c] = h]
    /\ LET sn == read_self_name(variant, h) IN
       IF sn.raised
       THEN /\ pc' = [pc EXCEPT ![c] = "crashed"]
            /\ closed' = closed
       ELSE IF sn.value = None \/ sn.value = ""
       THEN /\ pc' = [pc EXCEPT ![c] = "rejected_missing"]
            /\ closed' = [closed EXCEPT ![c] = Append(@, PolicyViolation)]
       ELSE IF sn.value \in DOMAIN bots
       THEN /\ pc' = [pc EXCEPT ![c] = "rejected_duplicate"]
            /\ closed' = [closed EXCEPT ![c] = Append(@, PolicyViolation)]
       ELSE /\ pc' = [pc EXCEPT ![c] = "accepting"]
            /\ closed' = closed
    /\ UNCHANGED <<variant, accepted, close_failed, cause, connections,
                   get_connections, bots, connects, disconnects, data, nrecv,
                   tasks, dec_pc, dec_in, dec_out>>

\* _handle_ws from the return of websocket.accept() to the first
\* websocket.receive(): the connection is entered in the maps and bot_connect
\* is called.  bot_connect is the host framework's: Driver._bot_connect raises
\* RuntimeError for a self_id that is already connected, and the exception
\* leaves _handle_ws, which is not yet inside its try.
Register(c) ==
    /\ pc[c] = "accepting"
    /\ accepted' = [accepted EXCEPT ![c] = TRUE]
    /\ connections' = Put(connections, self_name(c), c)
    /\ get_connections' =
           IF variant = "adapters" THEN Put(get_connections, self_name(c), c)
           ELSE get_connections
    /\ IF self_name(c) \in DOMAIN bots
       THEN /\ pc' = [pc EXCEPT ![c] = "crashed"]
            /\ UNCHANGED <<bots, connects>>
       ELSE /\ pc' = [pc EXCEPT ![c] = "active"]
            /\ bots' = Put(bots, self_name(c), c)
            /\ connects' = [connects EXCEPT ![c] = @ + 1]
    /\ UNCHANGED <<variant, header, closed, close_failed, cause, disconnects,
                   data, nrecv, tasks, dec_pc, dec_in, dec_out>>

\* The receive loop with `await bot.handle_event(event)` in place of
\* asyncio.create_task: it takes no frame while a task of its connection runs.
Receive_AwaitsTasks(c, f) ==
    /\ pc[c] = "active"
    /\ TotalReceived < MaxFrames
    /\ \A i \in 1..Len(tasks) : tasks[i].conn = c => tasks[i].done
    /\ data' = [data EXCEPT ![c] = f]
    /\ nrecv' = [nrecv EXCEPT ![c] = @ + 1]
    /\ IF json_loads(f).raised
       THEN /\ pc' = [pc EXCEPT ![c] = "closing"]
            /\ cause' = [cause EXCEPT ![c] = "error"]
            /\ tasks' = tasks
       ELSE LET r == json_to_event(variant, json_loads(f).value) IN
            IF r.raised
            THEN /\ pc' = [pc EXCEPT ![c] = "closing"]
                 /\ cause' = [cause EXCEPT ![c] = "error"]
                 /\ tasks' = tasks
            ELSE /\ UNCHANGED <<pc, cause>>
                 /\ tasks' =
                        IF r.event # None
                        THEN Append(tasks, [conn |-> c, n |-> nrecv[c] + 1,
                                            event |-> r.event, done |-> FALSE])
                        ELSE tasks
    /\ UNCHANGED <<variant, header, accepted, closed, close_failed, connections,
                   get_connections, bots, connects, disconnects,
                   dec_pc, dec_in, dec_out>>

\* The receive loop launching the task of the newest frame ahead of the tasks
\* of the frames that arrived before it.
Receive_NewestFirst(c, f) ==
    /\ pc[c] = "active"
    /\ TotalReceived < MaxFrames
    /\ data' = [data EXCEPT ![c] = f]
    /\ nrecv' = [nrecv EXCEPT ![c] = @ + 1]
    /\ IF json_loads(f).raised
       THEN /\ pc' = [pc EXCEPT ![c] = "closing"]
            /\ cause' = [cause EXCEPT ![c] = "error"]
            /\ tasks' = tasks
       ELSE LET r == json_to_event(variant, json_loads(f).value) IN
            IF r.raised
            THEN /\ pc' = [pc EXCEPT ![c] = "closing"]
                 /\ cause' = [cause EXCEPT ![c] = "error"]
                 /\ tasks' = tasks
            ELSE /\ UNCHANGED <<pc, cause>>
                 /\ tasks' =
                        IF r.event # None
                        THEN <<[conn |-> c, n |-> nrecv[c] + 1,
                                event |-> r.event, done |-> FALSE]>> \o tasks
                        ELSE tasks
    /\ UNCHANGED <<variant, header, accepted, closed, close_failed, connections,
                   get_connections, bots, connects, disconnects,
                   dec_pc, dec_in, dec_out>>

\* The receive loop entered before the registration: a frame is taken while
\* the handler is still between websocket.accept() and bot_connect.
Receive_BeforeConnect(c, f) ==
    /\ pc[c] \in {"accepting", "active"}
    /\ TotalReceived < MaxFrames
    /\ data' = [data EXCEPT ![c] = f]
    /\ nrecv' = [nrecv EXCEPT ![c] = @ + 1]
    /\ IF json_loads(f).raised
       THEN /\ pc' = [pc EXCEPT ![c] = "closing"]
            /\ cause' = [cause EXCEPT ![c] = "error"]
            /\ tasks' = tasks
       ELSE LET r == json_to_event(variant, json_loads(f).value) IN
            IF r.raised
            THEN /\ pc' = [pc EXCEPT ![c] = "closing"]
                 /\ cause' = [cause EXCEPT ![c] = "error"]
                 /\ tasks' = tasks
            ELSE /\ UNCHANGED <<pc, cause>>
                 /\ tasks' =
                        IF r.event # None
                        THEN Append(tasks, [conn |-> c, n |-> nrecv[c] + 1,
                                            event |-> r.event, done |-> FALSE])
                        ELSE tasks
    /\ UNCHANGED <<variant, header, accepted, closed, close_failed, connections,
                   get_connections, bots, connects, disconnects,
                   dec_pc, dec_in, dec_out>>

\* One turn of the receive loop: a frame arrives, json.loads, json_to_event,
\* and a handle_event task for the event if there is one.  An exception of
\* json.loads or json_to_event is caught by `except Exception` and the
\* handler goes to its finally block.
Receive(c, f) ==
    /\ pc[c] = "active"
    /\ TotalReceived < MaxFrames
    /\ data' = [data EXCEPT ![c] = f]
    /\ nrecv' = [nrecv EXCEPT ![c] = @ + 1]
    /\ IF json_loads(f).raised
       THEN /\ pc' = [pc EXCEPT ![c] = "closing"]
            /\ cause' = [cause EXCEPT ![c] = "error"]
            /\ tasks' = tasks
       ELSE LET r == json_to_event(variant, json_loads(f).value) IN
            IF r.raised
            THEN /\ pc' = [pc EXCEPT ![c] = "closing"]
                 /\ cause' = [cause EXCEPT ![c] = "error"]
                 /\ tasks' = tasks
            ELSE /\ UNCHANGED <<pc, cause>>
                 /\ tasks' =
                        IF r.event # None
                        THEN Append(tasks, [conn |-> c, n |-> nrecv[c] + 1,
                                            event |-> r.event, done |-> FALSE])
                        ELSE tasks
    /\ UNCHANGED <<variant, header, accepted, closed, close_failed, connections,
                   get_connections, bots, connects, disconnects,
                   dec_pc, dec_in, dec_out>>

\* websocket.receive() raises WebSocketClosed: the peer closed.
PeerClose(c) ==
    /\ pc[c] = "active"
    /\ pc' = [pc EXCEPT ![c] = "closing"]
    /\ cause' = [cause EXCEPT ![c] = "peer"]
    /\ UNCHANGED <<variant, header, accepted, closed, close_failed, connections,
                   get_connections, bots, connects, disconnects, data, nrecv,
                   tasks, dec_pc, dec_in, dec_out>>

\* websocket.receive() raises another exception.
ReceiveError(c) ==
    /\ pc[c] = "active"
    /\ pc' = [pc EXCEPT ![c] = "closing"]
    /\ cause' = [cause EXCEPT ![c] = "error"]
    /\ UNCHANGED <<variant, header, accepted, closed, close_failed, connections,
                   get_connections, bots, connects, disconnects, data, nrecv,
                   tasks, dec_pc, dec_in, dec_out>>

\* The finally block waiting for the handle_event tasks of its connection
\* (an asyncio.gather on them) before it cleans up.
Cleanup_AwaitsTasks(c, close_raises) ==
    /\ pc[c] = "closing"
    /\ \A i \in 1..Len(tasks) : tasks[i].conn = c => tasks[i].done
    /\ pc' = [pc EXCEPT ![c] = "closed"]
    /\ IF close_raises
       THEN /\ close_failed' = [close_failed EXCEPT ![c] = TRUE]
            /\ closed' = closed
       ELSE /\ closed' = [closed EXCEPT ![c] = Append(@, NormalClosure)]
            /\ close_failed' = close_failed
    /\ connections' = Pop(connections, self_name(c))
    /\ bots' = Pop(bots, self_name(c))
    /\ disconnects' = [disconnects EXCEPT ![c] = @ + 1]
    /\ UNCHANGED <<variant, header, accepted, cause, get_connections, connects,
                   data, nrecv, tasks, dec_pc, dec_in, dec_out>>

\* The finally block emptying the maps (self.connections.clear()) instead of
\* popping the entry of its own self_name.
Cleanup_ClearsAll(c, close_raises) ==
    /\ pc[c] = "closing"
    /\ pc' = [pc EXCEPT ![c] = "closed"]
    /\ IF close_raises
       THEN /\ close_failed' = [close_failed EXCEPT ![c] = TRUE]
            /\ closed' = closed
       ELSE /\ closed' = [closed EXCEPT ![c] = Append(@, NormalClosure)]
            /\ close_failed' = close_failed
    /\ connections' = EmptyDict
    /\ bots' = EmptyDict
    /\ disconnects' = [disconnects EXCEPT ![c] = @ + 1]
    /\ UNCHANGED <<variant, header, accepted, cause, get_connections, connects,
                   data, nrecv, tasks, dec_pc, dec_in, dec_out>>

\* The finally block without contextlib.suppress: an exception of
\* websocket.close() leaves the handler before the pop and bot_disconnect.
Cleanup_NoSuppress(c, close_raises) ==
    /\ pc[c] = "closing"
    /\ IF close_raises
       THEN /\ pc' = [pc EXCEPT ![c] = "crashed"]
            /\ close_failed' = [close_failed EXCEPT ![c] = TRUE]
            /\ UNCHANGED <<closed, connections, bots, disconnects>>
       ELSE /\ pc' = [pc EXCEPT ![c] = "closed"]
            /\ closed' = [closed EXCEPT ![c] = Append(@, NormalClosure)]
            /\ close_failed' = close_failed
            /\ connections' = Pop(connections, self_name(c))
            /\ bots' = Pop(bots, self_name(c))
            /\ disconnects' = [disconnects EXCEPT ![c] = @ + 1]
    /\ UNCHANGED <<variant, header, accepted, cause, get_connections, connects,
                   data, nrecv, tasks, dec_pc, dec_in, dec_out>>

\* The finally block without bot_disconnect: the bot stays in self.bots.
Cleanup_KeepsBot(c, close_raises) ==
    /\ pc[c] = "closing"
    /\ pc' = [pc EXCEPT ![c] = "closed"]
    /\ IF close_raises
       THEN /\ close_failed' = [close_failed EXCEPT ![c] = TRUE]
            /\ closed' = closed
       ELSE /\ closed' = [closed EXCEPT ![c] = Append(@, NormalClosure)]
            /\ close_failed' = close_failed
    /\ connections' = Pop(connections, self_name(c))
    /\ bots' = bots
    /\ disconnects' = [disconnects EXCEPT ![c] = @ + 1]
    /\ UNCHANGED <<variant, header, accepted, cause, get_connections, connects,
                   data, nrecv, tasks, dec_pc, dec_in, dec_out>>

\* The finally block from the return of `await websocket.close()`: an
\* exception of close is suppressed, then the entry is popped from
\* self.connections and bot_disconnect is called (it pops self.bots).
Cleanup(c, close_raises) ==
    /\ pc[c] = "closing"
    /\ pc' = [pc EXCEPT ![c] = "closed"]
    /\ IF close_raises
       THEN /\ close_failed' = [close_failed EXCEPT ![c] = TRUE]
            /\ closed' = closed
       ELSE /\ closed' = [closed EXCEPT ![c] = Append(@, NormalClosure)]
            /\ close_failed' = close_failed
    /\ connections' = Pop(connections, self_name(c))
    /\ bots' = Pop(bots, self_name(c))
    /\ disconnects' = [disconnects EXCEPT ![c] = @ + 1]
    /\ UNCHANGED <<variant, header, accepted, cause, get_connections, connects,
                   data, nrecv, tasks, dec_pc, dec_in, dec_out>>

\* A handle_event task created by asyncio.create_task runs to its end.
HandleEvent(i) ==
    /\ i \in 1..Len(tasks)
    /\ ~tasks[i].done
    /\ tasks' = [tasks EXCEPT ![i].done = TRUE]
    /\ UNCHANGED <<variant, pc, header, accepted, closed, close_failed, cause,
                   connections, get_connections, bots, connects, disconnects,
                   data, nrecv, dec_pc, dec_in, dec_out>>

\* The frames the peers send where every connection and header is explored:
\* text that is not JSON, and an event.
WireFrames ==
    {NotJson,
     [kind |-> "object", post_type |-> None, event_name |-> "PlayerJoin",
      fields |-> {"player"}]}

Next ==
    \/ \E c \in Conns, h \in Headers : Handshake(c, h)
    \/ \E c \in Conns : Register(c)
    \/ \E c \in Conns, f \in WireFrames :
          TotalReceived < MaxWireFrames /\ Receive(c, f)
    \/ \E c \in Conns : PeerClose(c)
    \/ \E c \in Conns : ReceiveError(c)
    \/ \E c \in Conns, close_raises \in BOOLEAN : Cleanup(c, close_raises)
    \/ \E i \in 1..MaxFrames : HandleEvent(i)

Spec == Init /\ [][Next]_vars

(***************************************************************************)
(* One peer, every frame: the receive loop of a single connection fed any  *)
(* sequence of frames.                                                     *)
(***************************************************************************)
NextFrames ==
    \/ \E h \in {"A", "\\x41"} : Handshake(1, h)
    \/ Register(1)
    \/ \E f \in Frames : Receive(1, f)
    \/ PeerClose(1)
    \/ ReceiveError(1)
    \/ \E close_raises \in BOOLEAN : Cleanup(1, close_raises)
    \/ \E i \in 1..MaxFrames : HandleEvent(i)

SpecFrames == Init /\ [][NextFrames]_vars

\* The event loop runs every task that asyncio.create_task scheduled, and a
\* handle_event that is run finishes.
SpecFramesFair ==
    SpecFrames /\ \A i \in 1..MaxFrames : WF_vars(HandleEvent(i))

(***************************************************************************)
(* json_to_event on its own: every JSON value, one call.                   *)
(***************************************************************************)
JsonValues == Objects \cup NonObjects

Decode(j) ==
    /\ dec_pc = "idle"
    /\ dec_pc' = "done"
    /\ dec_in' = j
    /\ dec_out' = json_to_event(variant, j)
    /\ UNCHANGED <<variant, connVars>>

DecodeNext == \E j \in JsonValues : Decode(j)

SpecDecode == Init /\ [][DecodeNext]_vars


(***************************************************************************)
(* The claims.                                                             *)
(***************************************************************************)
\* Connection c has just taken a frame from websocket.receive().
Received(c) == nrecv'[c] = nrecv[c] + 1

\* C1: of two connection attempts with the same identity exactly one is
\* accepted and registered and the other is rejected: there are never two
\* accepted connections of one identity that have not been cleaned up.
C1_OneAcceptedPerIdentity ==
    \A c1, c2 \in Conns :
        (c1 # c2 /\ accepted[c1] /\ accepted[c2]
            /\ pc[c1] # "closed" /\ pc[c2] # "closed")
        => self_name(c1) # self_name(c2)

\* C2: when the cleanup of an accepted connection ends, its identity is in no
\* connection map of the adapter and bot_disconnect has been called once for it.
C2_CleanupRemovesIdentity ==
    [][\A c \in Conns :
          (pc[c] = "closing" /\ pc'[c] = "closed") =>
              /\ self_name(c) \notin DOMAIN connections'
              /\ self_name(c) \notin DOMAIN get_connections'
              /\ self_name(c) \notin DOMAIN bots'
              /\ disconnects'[c] = 1]_vars

\* C3: a text frame that is not JSON creates no task and leaves the
\* connection active and registered.
C3_BadJsonKeepsConnection ==
    [][\A c \in Conns :
          (Received(c) /\ data'[c] = NotJson) =>
              /\ tasks' = tasks
              /\ pc'[c] = "active"
              /\ self_name(c) \in DOMAIN connections']_vars

\* C4: a connection attempt with a missing or empty X-Self-Name header is
\* closed with code 1008, is not accepted, enters no map and causes no
\* bot_connect or bot_disconnect.
C4_MissingHeaderRejected ==
    \A c \in Conns :
        (pc[c] # "new" /\ header[c] \in {None, ""}) =>
            /\ closed[c] = <<PolicyViolation>>
            /\ ~accepted[c]
            /\ connects[c] = 0
            /\ disconnects[c] = 0
            /\ \A k \in DOMAIN connections : connections[k] # c

\* C5: an attempt with the identity of a connection that is active is closed
\* with 1008, and the step changes nothing of the active connection: it stays
\* active, the maps are what they were, no bot_disconnect is called.
C5_DuplicateRejected ==
    [][\A c, e \in Conns :
          (/\ pc[c] = "new" /\ pc'[c] # "new"
           /\ pc[e] = "active"
           /\ read_self_name(variant, header'[c]).value = self_name(e))
          => /\ pc'[c] = "rejected_duplicate"
             /\ closed'[c] = <<PolicyViolation>>
             /\ ~accepted'[c]
             /\ pc'[e] = "active"
             /\ connections' = connections
             /\ get_connections' = get_connections
             /\ bots' = bots
             /\ disconnects' = disconnects]_vars

C5_Witness ==
    \E c, e \in Conns :
        /\ pc[c] = "rejected_duplicate"
        /\ closed[c] = <<PolicyViolation>>
        /\ pc[e] = "active"
        /\ self_name(c) = self_name(e)
        /\ connections[self_name(e)] = e
        /\ bots[self_name(e)] = e
        /\ disconnects[e] = 0

\* The event classes other than the fallback Event.
VariantsOf(v) == Range(DEFAULT_MODELS(v)) \ {"Event"}

\* No candidate and not the fallback either parses the object.
Undecodable(v, f) ==
    /\ f.kind = "object"
    /\ \A m \in Range(get_model(v, f)) \cup {"Event"} : ~parse_obj(v, m, f)

\* C6: a frame that is a JSON object no candidate and not the fallback Event
\* parses makes json_to_event return None without raising; the receive loop
\* creates no task for it and the connection stays active.
C6_UndecodableDropped ==
    [][\A c \in Conns :
          (Received(c) /\ Undecodable(variant, data'[c])) =>
              /\ json_to_event(variant, data'[c]).event = None
              /\ ~json_to_event(variant, data'[c]).raised
              /\ tasks' = tasks
              /\ pc'[c] = "active"]_vars

C6_Witness ==
    \E c \in Conns :
        /\ pc[c] = "active"
        /\ nrecv[c] = 2
        /\ Undecodable(variant, data[c])
        /\ tasks = <<>>

\* C7: for a JSON value that is not an object json_to_event returns None, tries
\* no class (no candidate, no fallback), and the receive loop creates no task.
C7_NonObjectIgnored ==
    [][\A c \in Conns :
          (Received(c) /\ data'[c].kind \in NonObjectKinds) =>
              /\ json_to_event(variant, data'[c]) = NoResult
              /\ tasks' = tasks
              /\ pc'[c] = "active"]_vars

C7_Witness ==
    \E c \in Conns :
        /\ pc[c] = "active"
        /\ nrecv[c] >= 1
        /\ data[c].kind \in NonObjectKinds
        /\ tasks = <<>>

\* The event classes other than Event that parse the object.
MatchesOf(v, j) == {m \in VariantsOf(v) : parse_obj(v, m, j)}

LacksDiscriminators(v, j) ==
    /\ j.kind = "object"
    /\ \A i \in 1..Len(CollatorKeys(v)) : j[CollatorKeys(v)[i]] = None

FirstParsing(v, cands, j) ==
    IF \E i \in 1..Len(cands) : parse_obj(v, cands[i], j)
    THEN CHOOSE i \in 1..Len(cands) :
            /\ parse_obj(v, cands[i], j)
            /\ \A k \in 1..(i - 1) : ~parse_obj(v, cands[k], j)
    ELSE 0

\* C10: json_to_event calls parse_obj on the candidates in the order
\* get_event_model yields them, up to and including the first that parses,
\* whose instance it returns; a candidate that fails does not end the loop,
\* and no candidate after the first success is tried.
C10_FirstSuccessInOrder ==
    (dec_pc = "done" /\ dec_in.kind = "object") =>
        LET cands == get_event_model(variant, dec_in)
            first == FirstParsing(variant, cands, dec_in)
        IN  IF first > 0
            THEN /\ dec_out.tried = SubSeq(cands, 1, first)
                 /\ dec_out.event = cands[first]
                 /\ ~dec_out.fallback
            ELSE dec_out.tried = cands

C10_Witness ==
    /\ dec_pc = "done"
    /\ dec_out.tried = <<"PlayerChat", "MessageEvent">>
    /\ get_event_model(variant, dec_in) = <<"PlayerChat", "MessageEvent", "Event">>
    /\ dec_out.event = "MessageEvent"

\* The calls of parse_obj on the class Event that one json_to_event made: as a
\* candidate of the loop and in the else branch.
EventAttempts(r) ==
    Cardinality({i \in 1..Len(r.tried) : r.tried[i] = "Event"})
        + (IF r.fallback THEN 1 ELSE 0)

\* No candidate get_event_model yields parses the object.
NoCandidateParses(v, j) ==
    /\ j.kind = "object"
    /\ \A m \in Range(get_event_model(v, j)) : ~parse_obj(v, m, j)

HasPendingTask(c) ==
    \E i \in 1..Len(tasks) : tasks[i].conn = c /\ ~tasks[i].done

\* C12: a handle_event task that has not finished does not hold up the receive
\* loop of its connection: while the connection is active the loop can take
\* the next frame, a malformed one or an event, whatever the state of its tasks.
C12_PendingTaskDoesNotBlockReceive ==
    \A c \in Conns :
        (pc[c] = "active" /\ HasPendingTask(c) /\ TotalReceived < MaxFrames)
        => \A f \in WireFrames : ENABLED Receive(c, f)

C12_Witness ==
    /\ nrecv[1] = 2
    /\ Len(tasks) = 2
    /\ tasks[1].conn = 1 /\ tasks[1].n = 1 /\ ~tasks[1].done
    /\ tasks[2].conn = 1 /\ tasks[2].n = 2

\* C13: on one connection the tasks are launched in the order in which their
\* frames arrived: of two tasks of a connection, the one created first is the
\* one of the earlier frame, and every task is of a frame already received.
C13_TasksInArrivalOrder ==
    \A i, j \in 1..Len(tasks) :
        /\ tasks[i].n \in 1..nrecv[tasks[i].conn]
        /\ (i < j /\ tasks[i].conn = tasks[j].conn) => tasks[i].n < tasks[j].n

C13_Witness ==
    /\ Len(tasks) = 2
    /\ tasks[1] = [conn |-> 1, n |-> 1, event |-> "PlayerChat", done |-> TRUE]
    /\ tasks[2] = [conn |-> 1, n |-> 2, event |-> "PlayerJoin", done |-> FALSE]

\* Task i exists, has not finished, and its connection has been cleaned up.
PendingAfterCleanup(i) ==
    /\ i \in 1..Len(tasks)
    /\ ~tasks[i].done
    /\ pc[tasks[i].conn] = "closed"

\* C14: the finally block does not wait for the handle_event tasks of its
\* connection: with tasks still running the loop can leave on a peer close or
\* an error and the cleanup can complete; the tasks are not cancelled, and a
\* task that is still running when the cleanup has completed runs to its end.
C14_CleanupDoesNotWaitForTasks ==
    /\ [](\A c \in Conns :
             HasPendingTask(c) =>
                 /\ pc[c] = "active" => ENABLED PeerClose(c) /\ ENABLED ReceiveError(c)
                 /\ pc[c] = "closing" => \A b \in BOOLEAN : ENABLED Cleanup(c, b))
    /\ \A i \in 1..MaxFrames :
           PendingAfterCleanup(i) ~> (i \in 1..Len(tasks) /\ tasks[i].done)

C14_Witness ==
    /\ pc[1] = "closed"
    /\ disconnects[1] = 1
    /\ cause[1] = "peer"
    /\ Len(tasks) = 2
    /\ tasks[1].done /\ ~tasks[2].done

\* A step in which connection c fails: its handshake is rejected (or raises),
\* its receive loop ends on a peer close or an exception, or its finally block
\* runs.
FailureStep(c) ==
    /\ pc'[c] # pc[c]
    /\ \/ pc[c] = "new" /\ pc'[c] \in {"rejected_missing", "rejected_duplicate",
                                      "crashed"}
       \/ pc'[c] \in {"closing", "closed"}

\* Connection d is where it was: same position, same transport state, no
\* notification, and if it is active its identity is still entered in the maps
\* with the same handles.
Untouched(d) ==
    /\ pc'[d] = pc[d]
    /\ accepted'[d] = accepted[d]
    /\ closed'[d] = closed[d]
    /\ connects'[d] = connects[d]
    /\ disconnects'[d] = disconnects[d]
    /\ pc[d] = "active" =>
          /\ self_name(d) \in DOMAIN connections'
          /\ connections'[self_name(d)] = connections[self_name(d)]
          /\ self_name(d) \in DOMAIN bots'
          /\ bots'[self_name(d)] = d

\* C15: a failure on one connection (rejected handshake, peer close, exception
\* in the receive loop, and the cleanup that follows) leaves every other
\* connection as it was: an active one stays active and registered under the
\* same handles, and no bot_disconnect is made for it.
C15_FailureLeavesOthersUnchanged ==
    [][\A c, d \in Conns : (c # d /\ FailureStep(c)) => Untouched(d)]_vars

C15_Witness ==
    /\ pc[1] = "closed"
    /\ cause[1] = "error"
    /\ disconnects[1] = 1
    /\ pc[2] = "active"
    /\ self_name(2) \in DOMAIN connections /\ connections[self_name(2)] = 2
    /\ self_name(2) \in DOMAIN bots /\ bots[self_name(2)] = 2
    /\ disconnects[2] = 0

\* C16: when websocket.close() raises in the finally block, the exception is
\* suppressed and the rest of the cleanup is done in the same step: the
\* identity leaves self.connections and self.bots, bot_disconnect is called
\* once, and the handler ends.
C16_CloseErrorSuppressed ==
    [][\A c \in Conns :
          (~close_failed[c] /\ close_failed'[c]) =>
              /\ pc[c] = "closing" /\ pc'[c] = "closed"
              /\ self_name(c) \in DOMAIN connections
              /\ self_name(c) \notin DOMAIN connections'
              /\ self_name(c) \in DOMAIN bots
              /\ self_name(c) \notin DOMAIN bots'
              /\ disconnects'[c] = disconnects[c] + 1]_vars

C16_Witness ==
    /\ close_failed[1]
    /\ closed[1] = <<>>
    /\ pc[1] = "closed"
    /\ disconnects[1] = 1
    /\ self_name(1) \notin DOMAIN connections
    /\ self_name(1) \notin DOMAIN bots

\* The handle_event tasks created for connection c.
TasksOf(c) == {i \in 1..Len(tasks) : tasks[i].conn = c}

\* C17: an accepted connection goes through accept, entry in
\* self.connections, bot_connect and only then frames: bot_connect is called
\* on an accepted websocket that is entered in self.connections and has
\* received nothing; a frame is taken and a task created only between
\* bot_connect and bot_disconnect.
C17_ConnectBeforeFramesBeforeDisconnect ==
    [][\A c \in Conns :
          /\ connects'[c] # connects[c] =>
                /\ connects[c] = 0 /\ connects'[c] = 1
                /\ accepted'[c]
                /\ self_name(c) \in DOMAIN connections'
                /\ connections'[self_name(c)] = c
                /\ nrecv[c] = 0 /\ TasksOf(c) = {}
          /\ (nrecv'[c] # nrecv[c] \/ TasksOf(c)' # TasksOf(c)) =>
                /\ connects[c] = 1
                /\ disconnects[c] = 0
          /\ disconnects'[c] # disconnects[c] =>
                /\ connects[c] = 1
                /\ disconnects[c] = 0 /\ disconnects'[c] = 1]_vars

C17_Witness ==
    /\ pc[2] = "closed"
    /\ accepted[2]
    /\ connects[2] = 1
    /\ disconnects[2] = 1
    /\ nrecv[2] = 1
    /\ TasksOf(2) = {1}

\* C18: in every state self.connections and self.bots have the same keys, and
\* the websocket stored for an identity is that of the connection whose bot is
\* registered under it, a connection that is in its receive loop or on its way
\* out of it.
C18_ConnectionsMatchBots ==
    /\ DOMAIN connections = DOMAIN bots
    /\ \A id \in DOMAIN connections :
          /\ connections[id] = bots[id]
          /\ self_name(connections[id]) = id
          /\ pc[connections[id]] \in {"active", "closing"}

\* Connection c presents a non-empty identity and gets the answer of the
\* duplicate check.
IdentityChecked(c) ==
    /\ pc[c] = "new"
    /\ pc'[c] \in {"accepting", "rejected_duplicate"}

\* Another connection holds the identity id: it is in its receive loop or in
\* its finally block before the removal.
HeldByOther(c, id) ==
    \E d \in Conns \ {c} :
        /\ pc[d] \in {"active", "closing"}
        /\ self_name(d) = id

\* C19: an attempt with an identity is rejected as a duplicate exactly while
\* another connection of that identity is active or closing; once that
\* connection has finished its cleanup, an attempt with the same identity is
\* accepted.
C19_IdentityReusableAfterCleanup ==
    [][\A c \in Conns :
          IdentityChecked(c) =>
              IF HeldByOther(c, self_name(c)')
              THEN pc'[c] = "rejected_duplicate"
              ELSE pc'[c] = "accepting"]_vars

C19_Witness ==
    /\ header[1] = "A" /\ header[2] = "A"
    /\ pc[1] = "closed" /\ disconnects[1] = 1
    /\ pc[2] = "active" /\ connects[2] = 1
    /\ "A" \in DOMAIN bots /\ bots["A"] = 2
    /\ "A" \in DOMAIN connections /\ connections["A"] = 2

====
